---- MODULE Spec2Model ----
(***************************************************************************)
(* Ex_NavierStokesRotationTest.py: a script run as `mpirun python3 script` *)
(* by mpi.size processes.  The processes share no script-level state, so   *)
(* every variable below is a function of the process.  The library calls   *)
(* (solve, advection, projection, write_timestep, pyvista) are opaque:     *)
(* each either returns or raises, and what the script can observe of its   *)
(* effect is recorded (solver settings, swarm rows, the calls completed).  *)
(***************************************************************************)
EXTENDS Integers, Sequences, FiniteSets, TLC

\* ---- bounds of the model ----
MaxProcs == 2
MaxPopulate == 1

\* ---- constants of the script ----
npoints == 100
LoopSteps == 100
OutputEvery == 5
\* ts = 1 in place of ts = 0
TsInitOne == 0 + 1

TsInit == 0
DefaultMaxSteps == 1000

\* values of the max_steps option the runs are launched with
MaxStepsOptions == {0, 1, DefaultMaxSteps}

VARIABLES size, maxsteps, pc, err, navier_stokes, passive_swarm, added, step, ts, trace

vars == <<size, maxsteps, pc, err, navier_stokes, passive_swarm, added, step, ts, trace>>

Procs == 1..size
Rank(p) == p - 1

\* ---- the order of the statements ----
\* the first solve placed before the boundary conditions
SetupOrderSolveEarly == <<"options", "replenish0", "model", "solve0", "bcs", "project0", "initvis">>

SetupOrder == <<"options", "replenish0", "model", "bcs", "solve0", "project0", "initvis">>

\* the output block placed before the advection
LoopOrderOutputEarly == <<"solve", "plot", "write", "advect", "project", "replenish", "print">>

\* the projection placed before the solve of the step
LoopOrderProjectFirst == <<"project", "solve", "advect", "replenish", "print", "plot", "write">>

LoopOrder == <<"solve", "advect", "project", "replenish", "print", "plot", "write">>

\* the statement that follows s in the straight-line sequence order; the loop
\* header follows the last one
After(order, s) ==
  LET i == CHOOSE k \in 1..Len(order) : order[k] = s
  IN  IF i < Len(order) THEN order[i + 1] ELSE "for"

Following(s) == IF \E k \in 1..Len(SetupOrder) : SetupOrder[k] = s
                THEN After(SetupOrder, s)
                ELSE After(LoopOrder, s)

\* ---- guards of the script ----
\* the guard on the process count left out
VisAlways(sz) == sz >= 1

VisEnabled(sz) == sz = 1

IsPrinter(rank) == rank = 0

OutputDue(t) == t % OutputEvery = 0

\* ---- names bound at module level ----
BaseNames == {"uw", "np", "sympy", "resolution", "refinement", "maxsteps", "restart_step",
              "rho", "meshball", "v_soln", "p_soln", "vorticity", "navier_stokes",
              "nodal_vorticity_from_v", "passive_swarm", "npoints", "expt_name",
              "plot_V_mesh", "ts"}

VisNames == {"pv", "vis", "pvmesh", "velocity_points", "passive_swarm_points", "points",
             "centroid_cloud", "pvstream", "pl"}

GlobalNames(sz) == BaseNames \cup (IF VisEnabled(sz) THEN VisNames ELSE {})

MeshWriteNames == {"meshball", "expt_name", "p_soln", "v_soln", "vorticity", "St", "ts"}

PostLoopNames == {"pvmesh"}

\* ---- the swarm's coordinate array ----
\* a row: the addNPoints call that created it (0: populate), and what wrote
\* its coordinates last: populate, nothing yet, the random array of a
\* replenishment, or the advection
Row(born, src) == [born |-> born, src |-> src]

Populated(n) == [j \in 1..n |-> Row(0, "populate")]

\* dm.addNPoints(n): n rows appended, coordinates not yet assigned
AddNPoints(sw, n, batch) == sw \o [j \in 1..n |-> Row(batch, "unset")]

\* Python's indices of data[start : stop : -1] for an array of L rows,
\* as 0-based row numbers in the order the slice visits them
ClampNeg(i, L) == IF i < 0 THEN (IF i + L < 0 THEN -1 ELSE i + L)
                  ELSE (IF i >= L THEN L - 1 ELSE i)

SliceDown(L, start, stop) ==
  LET a == ClampNeg(start, L)
      b == ClampNeg(stop, L)
      n == IF a > b THEN a - b ELSE 0
  IN  [k \in 1..n |-> a - (k - 1)]

\* data[n - 1 :: -1], the first n rows, in place of the last n
OldestRows(L, n) == SliceDown(L, n - 1, -(L + 1))

NewestRows(L, n) == SliceDown(L, -1, -(n + 1))

\* data[idx, :] = np.array(...): every row the slice selects gets new random
\* coordinates; the enclosing `for i in range(npoints)` repeats this very
\* assignment, so the rows written are those of a single one
AssignRows(sw, idx) ==
  LET target == {idx[k] + 1 : k \in 1..Len(idx)}
  IN  [j \in 1..Len(sw) |-> IF j \in target THEN Row(sw[j].born, "random") ELSE sw[j]]

\* swarm.advection: the library moves every particle
Advected(sw) == [j \in 1..Len(sw) |-> Row(sw[j].born, "advected")]

\* ---- the solver's settings ----
Unset == [options |-> FALSE, model |-> "none", viscosity |-> 0, bodyforce |-> "unset", bcs |-> {}]

WithOptions(ns) == [ns EXCEPT !.options = TRUE]

WithModel(ns) == [ns EXCEPT !.model = "ViscousFlowModel", !.viscosity = 1, !.bodyforce = "zero"]

WithBCs(ns) == [ns EXCEPT !.bcs = ns.bcs \cup {[boundary |-> "Upper", value |-> "rotation"],
                                                [boundary |-> "Lower", value |-> "zero"]}]

\* ---- the calls a process has completed ----
Event(op, p) == [op |-> op, step |-> step[p], idx |-> ts[p]]

Upd(f, p, v) == [f EXCEPT ![p] = v]

Init ==
  /\ size \in 1..MaxProcs
  /\ maxsteps \in MaxStepsOptions
  /\ pc = [p \in Procs |-> SetupOrder[1]]
  /\ err = [p \in Procs |-> "none"]
  /\ navier_stokes = [p \in Procs |-> Unset]
  /\ passive_swarm \in {[p \in Procs |-> Populated(n)] : n \in 0..MaxPopulate}
  /\ added = [p \in Procs |-> 0]
  /\ step = [p \in Procs |-> -1]
  /\ ts = [p \in Procs |-> TsInit]
  /\ trace = [p \in Procs |-> << >>]

\* an exception propagates: the process ends where it is
Raise(p, kind) ==
  /\ pc' = Upd(pc, p, "stopped")
  /\ err' = Upd(err, p, kind)
  /\ UNCHANGED <<size, maxsteps, navier_stokes, passive_swarm, added, step, ts, trace>>

Goto(p, s) == pc' = Upd(pc, p, s) /\ UNCHANGED <<size, maxsteps, err>>

Did(p, op) == trace' = Upd(trace, p, Append(trace[p], Event(op, p)))

SetOptions(p) ==
  /\ pc[p] = "options"
  /\ navier_stokes' = Upd(navier_stokes, p, WithOptions(navier_stokes[p]))
  /\ Goto(p, Following("options"))
  /\ UNCHANGED <<passive_swarm, added, step, ts, trace>>

SetModel(p) ==
  /\ pc[p] = "model"
  /\ navier_stokes' = Upd(navier_stokes, p, WithModel(navier_stokes[p]))
  /\ Goto(p, Following("model"))
  /\ UNCHANGED <<passive_swarm, added, step, ts, trace>>

AddBCs(p) ==
  /\ pc[p] = "bcs"
  /\ \E raised \in BOOLEAN :
       IF raised THEN Raise(p, "library")
       ELSE /\ navier_stokes' = Upd(navier_stokes, p, WithBCs(navier_stokes[p]))
            /\ Goto(p, Following("bcs"))
            /\ UNCHANGED <<passive_swarm, added, step, ts, trace>>

Replenish(p) ==
  /\ pc[p] \in {"replenish0", "replenish"}
  /\ \E raised \in BOOLEAN :
       IF raised THEN Raise(p, "library")
       ELSE LET batch == added[p] + 1
                grown == AddNPoints(passive_swarm[p], npoints, batch)
                idx == NewestRows(Len(grown), npoints)
            IN  IF Len(idx) # npoints
                THEN /\ passive_swarm' = Upd(passive_swarm, p, grown)
                     /\ added' = Upd(added, p, batch)
                     /\ pc' = Upd(pc, p, "stopped")
                     /\ err' = Upd(err, p, "library")
                     /\ UNCHANGED <<size, maxsteps, navier_stokes, step, ts, trace>>
                ELSE /\ passive_swarm' = Upd(passive_swarm, p, AssignRows(grown, idx))
                     /\ added' = Upd(added, p, batch)
                     /\ Did(p, "replenish")
                     /\ Goto(p, Following(pc[p]))
                     /\ UNCHANGED <<navier_stokes, step, ts>>

Solve(p) ==
  /\ pc[p] \in {"solve0", "solve"}
  /\ \E raised \in BOOLEAN :
       IF raised THEN Raise(p, "library")
       ELSE /\ Did(p, "solve")
            /\ Goto(p, Following(pc[p]))
            /\ UNCHANGED <<navier_stokes, passive_swarm, added, step, ts>>

Project(p) ==
  /\ pc[p] \in {"project0", "project"}
  /\ \E raised \in BOOLEAN :
       IF raised THEN Raise(p, "library")
       ELSE /\ Did(p, "project")
            /\ Goto(p, Following(pc[p]))
            /\ UNCHANGED <<navier_stokes, passive_swarm, added, step, ts>>

InitialVis(p) ==
  /\ pc[p] = "initvis"
  /\ IF VisEnabled(size)
     THEN \E raised \in BOOLEAN :
            IF raised THEN Raise(p, "library")
            ELSE /\ Did(p, "show")
                 /\ Goto(p, Following("initvis"))
                 /\ UNCHANGED <<navier_stokes, passive_swarm, added, step, ts>>
     ELSE /\ Goto(p, Following("initvis"))
          /\ UNCHANGED <<navier_stokes, passive_swarm, added, step, ts, trace>>

ForStep(p) ==
  /\ pc[p] = "for"
  /\ IF step[p] + 1 < LoopSteps
     THEN /\ step' = Upd(step, p, step[p] + 1)
          /\ Goto(p, LoopOrder[1])
          /\ UNCHANGED <<navier_stokes, passive_swarm, added, ts, trace>>
     ELSE IF PostLoopNames \subseteq GlobalNames(size)
          THEN /\ Did(p, "pvmesh_read")
               /\ Goto(p, "done")
               /\ UNCHANGED <<navier_stokes, passive_swarm, added, step, ts>>
          ELSE Raise(p, "NameError")

Advect(p) ==
  /\ pc[p] = "advect"
  /\ \E raised \in BOOLEAN :
       IF raised THEN Raise(p, "library")
       ELSE /\ passive_swarm' = Upd(passive_swarm, p, Advected(passive_swarm[p]))
            /\ Did(p, "advect")
            /\ Goto(p, Following("advect"))
            /\ UNCHANGED <<navier_stokes, added, step, ts>>

PrintProgress(p) ==
  /\ pc[p] = "print"
  /\ IF IsPrinter(Rank(p))
     THEN Did(p, "print")
     ELSE UNCHANGED trace
  /\ Goto(p, Following("print"))
  /\ UNCHANGED <<navier_stokes, passive_swarm, added, step, ts>>

plot_V_mesh(p) ==
  /\ pc[p] = "plot"
  /\ IF OutputDue(ts[p])
     THEN IF VisEnabled(size)
          THEN \E raised \in BOOLEAN :
                 IF raised THEN Raise(p, "library")
                 ELSE /\ Did(p, "screenshot")
                      /\ Goto(p, Following("plot"))
                      /\ UNCHANGED <<navier_stokes, passive_swarm, added, step, ts>>
          ELSE /\ Goto(p, Following("plot"))
               /\ UNCHANGED <<navier_stokes, passive_swarm, added, step, ts, trace>>
     ELSE /\ ts' = Upd(ts, p, ts[p] + 1)
          /\ Goto(p, "for")
          /\ UNCHANGED <<navier_stokes, passive_swarm, added, step, trace>>

WriteTimesteps(p) ==
  /\ pc[p] = "write"
  /\ IF ~(MeshWriteNames \subseteq GlobalNames(size))
     THEN Raise(p, "NameError")
     ELSE \E meshRaised, swarmRaised \in BOOLEAN :
            IF meshRaised THEN Raise(p, "library")
            ELSE IF swarmRaised
                 THEN /\ Did(p, "mesh_checkpoint")
                      /\ pc' = Upd(pc, p, "stopped")
                      /\ err' = Upd(err, p, "library")
                      /\ UNCHANGED <<size, maxsteps, navier_stokes, passive_swarm, added, step, ts>>
                 ELSE /\ trace' = Upd(trace, p, trace[p] \o <<Event("mesh_checkpoint", p),
                                                              Event("swarm_checkpoint", p)>>)
                      /\ ts' = Upd(ts, p, ts[p] + 1)
                      /\ Goto(p, Following("write"))
                      /\ UNCHANGED <<navier_stokes, passive_swarm, added, step>>

Next ==
  \/ \E p \in Procs : SetOptions(p)
  \/ \E p \in Procs : SetModel(p)
  \/ \E p \in Procs : AddBCs(p)
  \/ \E p \in Procs : Replenish(p)
  \/ \E p \in Procs : Solve(p)
  \/ \E p \in Procs : Project(p)
  \/ \E p \in Procs : InitialVis(p)
  \/ \E p \in Procs : ForStep(p)
  \/ \E p \in Procs : Advect(p)
  \/ \E p \in Procs : PrintProgress(p)
  \/ \E p \in Procs : plot_V_mesh(p)
  \/ \E p \in Procs : WriteTimesteps(p)

Spec == Init /\ [][Next]_vars

\* ---- what the claims speak of ----
Events(p, ops) == {i \in 1..Len(trace[p]) : trace[p][i].op \in ops}

Has(p, op, t) == \E i \in Events(p, {op}) : trace[p][i].idx = t

OutputOps == {"screenshot", "mesh_checkpoint", "swarm_checkpoint"}

VisOps == {"show", "screenshot", "pvmesh_read"}

BodyPositions == {LoopOrder[k] : k \in 1..Len(LoopOrder)}

SetupPositions == {SetupOrder[k] : k \in 1..Len(SetupOrder)}

\* an event of kind op and of the same step precedes event i
Preceded(p, i, op) ==
  \E a \in Events(p, {op}) : a < i /\ trace[p][a].step = trace[p][i].step

\* C1: within a loop step the advection follows the solve, the replenishment
\* follows the advection, and every output of the step (screenshot, mesh
\* checkpoint, swarm checkpoint) follows the step's replenishment
C1_OutputAfterSolveAdvectReplenish ==
  \A p \in Procs : \A i \in 1..Len(trace[p]) :
    LET e == trace[p][i]
    IN  /\ (e.op = "advect" => Preceded(p, i, "solve"))
        /\ (e.op = "replenish" /\ e.step >= 0 => Preceded(p, i, "advect"))
        /\ (e.op \in OutputOps =>
              /\ Preceded(p, i, "replenish")
              /\ Preceded(p, i, "advect")
              /\ Preceded(p, i, "solve"))

C1_Witness ==
  \E p \in Procs : pc[p] = "write" /\ Has(p, "screenshot", 0)

\* C2: every step whose ts is a multiple of 5 leaves a mesh checkpoint and a
\* swarm checkpoint of index ts (and a screenshot on one process) and the loop
\* goes on; no other step writes any of them
C2_EveryFifthStepWritten ==
  \A p \in Procs :
    /\ \A t \in 0..(LoopSteps - 1) :
         (/\ step[p] >= 0
          /\ t % 5 = 0
          /\ \/ t < ts[p]
             \/ t = ts[p] /\ pc[p] = "stopped" /\ err[p] # "library")
         => /\ Has(p, "mesh_checkpoint", t)
            /\ Has(p, "swarm_checkpoint", t)
            /\ (size = 1 => Has(p, "screenshot", t))
    /\ \A i \in Events(p, OutputOps) : trace[p][i].idx % 5 = 0

FullySet == [options |-> TRUE, model |-> "ViscousFlowModel", viscosity |-> 1,
             bodyforce |-> "zero",
             bcs |-> {[boundary |-> "Upper", value |-> "rotation"],
                      [boundary |-> "Lower", value |-> "zero"]}]

\* C4: once a solve has been called, the options, the constitutive model and
\* viscosity, the body force and the two boundary conditions are set, and
\* they stay as they were set
C4_SolveAfterSettings ==
  \A p \in Procs : Events(p, {"solve"}) # {} => navier_stokes[p] = FullySet

C4_Witness ==
  \E p \in Procs : Cardinality(Events(p, {"solve"})) = 2

\* C5: a run ends early only by an error the library raised
C5_OnlyLibraryErrors ==
  \A p \in Procs : pc[p] = "stopped" => err[p] = "library"

\* C6: the loop runs no more than max_steps iterations
C6_MaxStepsBoundsLoop ==
  \A p \in Procs : step[p] + 1 <= maxsteps

\* C7: the progress line is printed once per completed solve/advect/replenish
\* step and by rank 0 only, while every process, whatever its rank, makes the
\* solve, the advection, the replenishment and the checkpoint writes of a step
C7_PrintByRankZeroWorkByAll ==
  \A p \in Procs :
    /\ (Rank(p) # 0 => Events(p, {"print"}) = {})
    /\ (Rank(p) = 0 =>
          Cardinality(Events(p, {"print"}))
            = Cardinality({i \in Events(p, {"replenish"}) : trace[p][i].step >= 0})
              - (IF pc[p] = "print" THEN 1 ELSE 0))
    /\ \A t \in 0..(LoopSteps - 1) :
         (/\ step[p] >= 0
          /\ t % 5 = 0
          /\ \/ t < ts[p]
             \/ t = ts[p] /\ pc[p] = "stopped" /\ err[p] # "library")
         => /\ \E i \in Events(p, {"solve"}) : trace[p][i].step = t
            /\ \E i \in Events(p, {"advect"}) : trace[p][i].step = t
            /\ \E i \in Events(p, {"replenish"}) : trace[p][i].step = t
            /\ Has(p, "mesh_checkpoint", t)
            /\ Has(p, "swarm_checkpoint", t)

\* the indices of the events of kind op, in the order they were made
RECURSIVE IndicesOf(_, _, _)
IndicesOf(p, op, n) ==
  IF n = 0 THEN << >>
  ELSE IF trace[p][n].op = op
       THEN Append(IndicesOf(p, op, n - 1), trace[p][n].idx)
       ELSE IndicesOf(p, op, n - 1)

C9_ReplenishWritesOnlyNewRows ==
  [][\A p \in Procs :
       /\ added'[p] # added[p] =>
            LET old == passive_swarm[p]
                new == passive_swarm'[p]
            IN  /\ added'[p] = added[p] + 1
                /\ Len(new) = Len(old) + npoints
                /\ \A j \in 1..Len(old) : new[j] = old[j]
                /\ \A j \in (Len(old) + 1)..Len(new) :
                     /\ new[j].born = added'[p]
                     /\ new[j].src = "random"
       /\ pc'[p] = "for" =>
            Cardinality({j \in 1..Len(passive_swarm'[p]) : passive_swarm'[p][j].born > 0})
              = npoints * (step'[p] + 2)
       /\ pc'[p] \in {"print", "plot", "write"} =>
            Cardinality({j \in 1..Len(passive_swarm'[p]) : passive_swarm'[p][j].born > 0})
              = npoints * (step'[p] + 2)
    ]_vars

C9_Witness ==
  \E p \in Procs :
    /\ added[p] = 2
    /\ Len(passive_swarm[p]) = 2 * npoints + 1
    /\ passive_swarm[p][1].src = "advected"

\* C10: an output that reads the vorticity (first display, screenshot, mesh
\* checkpoint) comes after a projection that itself comes after the latest solve
C10_VorticityIsOfCurrentVelocity ==
  \A p \in Procs : \A i \in Events(p, {"show", "screenshot", "mesh_checkpoint"}) :
    \E j \in Events(p, {"project"}) :
      /\ j < i
      /\ \A s \in Events(p, {"solve"}) : s < i => s < j
      /\ \E s \in Events(p, {"solve"}) : s < j

C10_Witness ==
  \E p \in Procs : Has(p, "show", 0) /\ Has(p, "screenshot", 0) /\ Cardinality(Events(p, {"project"})) = 2

====
